---- MODULE Spec2Model ----
(***************************************************************************)
(* Scientific-skills MCP server: the skill catalog and the two protocol    *)
(* dispatchers.                                                            *)
(*                                                                         *)
(*   src/mcp_server/skill_loader.py   SkillRegistry, _parse_frontmatter    *)
(*   src/mcp_server/server.py         health, mcp_endpoint (on a registry) *)
(*   src/server.py                    _load_skills, _read_skill_content,   *)
(*                                    health, mcp_endpoint (on _TOOLS)     *)
(*                                                                         *)
(* A text is a sequence of tokens.  "-", "\n" and ":" are the characters   *)
(* the two header parsers and the YAML reader look at (":" stands for the  *)
(* key separator ": "); every other token is a run of characters that      *)
(* holds none of them, and none of the tokens is whitespace except "\n".   *)
(***************************************************************************)
EXTENDS Naturals, Integers, Sequences, FiniteSets, TLC

VARIABLES root, fs, removals, skills, loaded, current, tools, call,
          scans, loading, before, writes, input

vars == <<root, fs, removals, skills, loaded, current, tools, call,
          scans, loading, before, writes, input>>

\* what the operations of the serving process leave alone: the count of scans
\* kept for a registry that is only queried, the position of a load() running
\* beside other threads, and the text handed to _parse_frontmatter on its own
apart == <<scans, loading, before, writes, input>>

(***************************************************************************)
(* Bounds of the model.                                                    *)
(***************************************************************************)
\* removals (of a subdirectory, or of the whole root) under the running process
MaxRemovals == 2

\* scans of the directory by the queries of one registry
MaxScans == 2

\* documents written into the directory between two runs of load()
MaxWrites == 2

(***************************************************************************)
(* The source directory.                                                   *)
(***************************************************************************)
\* names of the immediate subdirectories the root may hold
DirNames == {"a", "b", "x"}

\* code point of a name's (only) character: Python compares str by code point
Ord(name) == CASE name = "a" -> 97 [] name = "b" -> 98 [] name = "x" -> 120

MARKER == <<"-", "-", "-">>

\* the documents a subdirectory may hold, by a short identifier
Text(doc) ==
  CASE doc = "plain"    -> <<"# Plain", "\n", "body">>
    [] doc = "empty"    -> << >>
    [] doc = "named1"   -> MARKER \o <<"\n", "name", ":", "x", "\n",
                                       "description", ":", "does x", "\n">>
                                  \o MARKER \o <<"\n", "# X", "\n", "one">>
    [] doc = "named2"   -> MARKER \o <<"\n", "name", ":", "x", "\n">>
                                  \o MARKER \o <<"\n", "# X", "\n", "two">>
    [] doc = "unclosed" -> MARKER \o <<"\n", "name", ":", "x", "\n", "# X">>
    [] doc = "badyaml"  -> MARKER \o <<"\n", "name", ":", "x", ":", "y", "\n">>
                                  \o MARKER \o <<"\n", "# X">>
    [] doc = "scalar"   -> MARKER \o <<"\n", "word", "\n">> \o MARKER \o <<"\n", "# S">>
    [] doc = "locked"   -> <<"# Locked">>

\* a SKILL.md that is a regular file but whose read raises (permissions,
\* bytes that are not UTF-8)
Readable(doc) == doc # "locked"

Docs == {"plain", "empty", "named1", "named2", "unclosed", "badyaml", "scalar",
         "locked"}

\* "absent": no such entry; "nodoc": an entry without a SKILL.md file in it
Slots == {"absent", "nodoc"} \cup Docs

None == [kind |-> "None"]

(***************************************************************************)
(* Python str operations, on token sequences (indices are 0-based as in    *)
(* Python; SubSeq is 1-based).                                             *)
(***************************************************************************)
\* s[i:j]
Slice(s, i, j) == SubSeq(s, i + 1, j)

\* s.startswith(p)
StartsWith(s, p) == Len(s) >= Len(p) /\ SubSeq(s, 1, Len(p)) = p

\* s.find(p, start): the lowest index >= start where p occurs, or -1
Lowest(hits) == IF hits = {} THEN -1 ELSE CHOOSE i \in hits : \A j \in hits : i <= j

Find(s, p, start) ==
  Lowest({i \in start..(Len(s) - Len(p)) : Slice(s, i, i + Len(p)) = p})

IsSpace(tok) == tok = "\n"

\* s.strip()
RECURSIVE LStrip(_)
LStrip(s) == IF s # << >> /\ IsSpace(Head(s)) THEN LStrip(Tail(s)) ELSE s

RECURSIVE RStrip(_)
RStrip(s) ==
  IF s # << >> /\ IsSpace(s[Len(s)]) THEN RStrip(SubSeq(s, 1, Len(s) - 1)) ELSE s

Strip(s) == RStrip(LStrip(s))

\* s.split("\n")
RECURSIVE SplitLines(_)
SplitAt(s, nl) ==
  IF nl = -1 THEN <<s>>
  ELSE <<Slice(s, 0, nl)>> \o SplitLines(Slice(s, nl + 1, Len(s)))

SplitLines(s) == SplitAt(s, Find(s, <<"\n">>, 0))

(***************************************************************************)
(* yaml.safe_load, on the block between the markers.  The value is one of  *)
(*   [kind |-> "None"]              an empty document                      *)
(*   [kind |-> "dict", d |-> f]     a mapping, f a function on its keys    *)
(*   [kind |-> "str"]               a plain scalar                         *)
(*   [kind |-> "YAMLError"]         the reader raised                      *)
(***************************************************************************)
IsWord(tok) == tok \notin {"-", "\n", ":"}

IsPair(line) == Len(line) = 3 /\ IsWord(line[1]) /\ line[2] = ":" /\ IsWord(line[3])

\* the value of the block's non-blank lines; a repeated key keeps its last value
YamlOf(lines) ==
  IF lines = << >> THEN None
  ELSE IF \A i \in 1..Len(lines) : IsPair(lines[i])
    THEN [kind |-> "dict",
          d |-> [k \in {lines[i][1] : i \in 1..Len(lines)} |->
                   lines[CHOOSE i \in 1..Len(lines) :
                           /\ lines[i][1] = k
                           /\ \A j \in 1..Len(lines) : lines[j][1] = k => j <= i][3]]]
  ELSE IF Len(lines) = 1 /\ Len(lines[1]) = 1 /\ IsWord(lines[1][1])
    THEN [kind |-> "str"]
  ELSE [kind |-> "YAMLError"]

yaml_safe_load(s) == YamlOf(SelectSeq(SplitLines(s), LAMBDA l : l # << >>))

\* metadata.get(key, default)
Get(metadata, key, default) ==
  IF key \in DOMAIN metadata THEN metadata[key] ELSE default

EmptyDict == [k \in {} |-> ""]

(***************************************************************************)
(* src/mcp_server/skill_loader.py                                          *)
(***************************************************************************)
\* lines 32-41 of _parse_frontmatter: y is what yaml.safe_load gave for the
\* block; isdict is FALSE when it is a plain scalar, returned as it is
LoaderResult(y, body) ==
  CASE y.kind = "dict"      -> [metadata |-> y.d, body |-> body, isdict |-> TRUE]
    [] y.kind = "None"      -> [metadata |-> EmptyDict, body |-> body, isdict |-> TRUE]
    [] y.kind = "YAMLError" -> [metadata |-> EmptyDict, body |-> body, isdict |-> TRUE]
    [] y.kind = "str"       -> [metadata |-> EmptyDict, body |-> body, isdict |-> FALSE]

\* lines 29-41 of _parse_frontmatter, end being content.find("---", 3)
LoaderSplit(content, end) ==
  IF end = -1 THEN [metadata |-> EmptyDict, body |-> content, isdict |-> TRUE]
  ELSE LoaderResult(yaml_safe_load(Strip(Slice(content, 3, end))),
                    Strip(Slice(content, end + 3, Len(content))))

\* _parse_frontmatter(content): [metadata, body]
skill_loader_parse_frontmatter(content) ==
  IF ~StartsWith(content, MARKER)
    THEN [metadata |-> EmptyDict, body |-> content, isdict |-> TRUE]
    ELSE LoaderSplit(content, Find(content, MARKER, 3))

\* _parse_frontmatter on each document of the model
LoaderParsed == [doc \in Docs |-> skill_loader_parse_frontmatter(Text(doc))]

\* sorted() with the comparison turned round: descending
RECURSIVE SortedDescending(_)
SortedDescending(S) ==
  IF S = {} THEN << >>
  ELSE LET m == CHOOSE n \in S : \A o \in S : Ord(n) >= Ord(o)
       IN  <<m>> \o SortedDescending(S \ {m})

\* sorted(names): ascending by code point
RECURSIVE Sorted(_)
Sorted(S) ==
  IF S = {} THEN << >>
  ELSE LET m == CHOOSE n \in S : \A o \in S : Ord(n) <= Ord(o)
       IN  <<m>> \o Sorted(S \ {m})

\* os.listdir(skills_dir) / SKILLS_DIR.iterdir(): the entries of the root
ListDir(f) == {d \in DirNames : f[d] # "absent"}

\* sorted(os.listdir(skills_dir)) / sorted(SKILLS_DIR.iterdir())
SortedOf == [S \in SUBSET DirNames |-> Sorted(S)]

SortedListDir(f) == SortedOf[ListDir(f)]

\* self._skills is a dict: a sequence of records in insertion order, one per key
Keys(sk) == {sk[i].name : i \in 1..Len(sk)}

\* self._skills.get(name)
DictGet(sk, name) ==
  IF name \in Keys(sk)
    THEN sk[CHOOSE i \in 1..Len(sk) : sk[i].name = name]
    ELSE None

\* an assignment that always adds an item, as list.append would
DictSetAppend(sk, name, rec) == Append(sk, rec)

\* self._skills[name] = rec: an existing key keeps its position
DictSet(sk, name, rec) ==
  IF name \in Keys(sk)
    THEN [i \in 1..Len(sk) |-> IF sk[i].name = name THEN rec ELSE sk[i]]
    ELSE Append(sk, rec)

\* the loop body of load storing the parsed body in place of the file's text
LoadEntryBody(sk, f, entry) ==
  IF f[entry] = "nodoc" THEN sk
  ELSE IF ~Readable(f[entry]) THEN sk
  ELSE
    LET content == Text(f[entry])
        parsed  == LoaderParsed[f[entry]]
    IN  IF ~parsed.isdict THEN sk
        ELSE
          LET name        == Get(parsed.metadata, "name", entry)
              description == IF "description" \in DOMAIN parsed.metadata
                               THEN <<parsed.metadata["description"]>> ELSE << >>
          IN  DictSet(sk, name, [name |-> name, description |-> description,
                                 dir_name |-> entry, content |-> parsed.body])

\* the loop body of load with a failure emptying the mapping, as a scan
\* without the try block would leave a caller that starts over
LoadEntryAbort(sk, f, entry) ==
  IF f[entry] = "nodoc" THEN sk
  ELSE IF ~Readable(f[entry]) THEN << >>
  ELSE
    LET content == Text(f[entry])
        parsed  == LoaderParsed[f[entry]]
    IN  IF ~parsed.isdict THEN << >>
        ELSE
          LET name        == Get(parsed.metadata, "name", entry)
              description == IF "description" \in DOMAIN parsed.metadata
                               THEN <<parsed.metadata["description"]>> ELSE << >>
          IN  DictSet(sk, name, [name |-> name, description |-> description,
                                 dir_name |-> entry, content |-> content])

\* one pass of the loop body of SkillRegistry.load for directory entry
LoadEntry(sk, f, entry) ==
  IF f[entry] = "nodoc" THEN sk
  ELSE IF ~Readable(f[entry]) THEN sk
  ELSE
    LET content == Text(f[entry])
        parsed  == LoaderParsed[f[entry]]
    IN  IF ~parsed.isdict THEN sk
        ELSE
          LET name        == Get(parsed.metadata, "name", entry)
              description == IF "description" \in DOMAIN parsed.metadata
                               THEN <<parsed.metadata["description"]>> ELSE << >>
          IN  DictSet(sk, name, [name |-> name, description |-> description,
                                 dir_name |-> entry, content |-> content])

RECURSIVE LoadLoop(_, _, _)
LoadLoop(sk, f, entries) ==
  IF entries = << >> THEN sk
  ELSE LoadLoop(LoadEntry(sk, f, Head(entries)), f, Tail(entries))

\* SkillRegistry.load: the mapping it leaves in self._skills
load(sk, r, f) ==
  IF ~r THEN sk
  ELSE LoadLoop(sk, f, SortedListDir(f))

\* the test of every query with the flag left out: the load runs each time
NeedsLoadAlways(ld) == TRUE

\* "if not self._loaded:" at the head of every query
NeedsLoad(ld) == ~ld

\* the scans of the directory one query makes
LazyScans(ld) == IF NeedsLoad(ld) THEN 1 ELSE 0

\* "if not self._loaded: self.load()" at the head of every query
EnsureLoaded(sk, ld, r, f) == IF NeedsLoad(ld) THEN load(sk, r, f) ELSE sk

InputSchema(text) ==
  [type |-> "object",
   properties |-> [query |-> [type |-> "string", description |-> text]]]

\* SkillRegistry.list_tools, on the loaded mapping
list_tools(sk) ==
  [i \in 1..Len(sk) |->
     [name |-> sk[i].name, description |-> sk[i].description,
      inputSchema |-> InputSchema("The scientific question or task to get guidance on")]]

\* get_skill_content answering a miss with "" in place of None
get_skill_content_empty(sk, name) ==
  LET skill == DictGet(sk, name)
  IN  [kind |-> "str", text |-> IF skill # None THEN skill.content ELSE << >>]

\* SkillRegistry.get_skill_content, on the loaded mapping
get_skill_content(sk, name) ==
  LET skill == DictGet(sk, name)
  IN  IF skill # None THEN [kind |-> "str", text |-> skill.content] ELSE None

\* SkillRegistry.count, on the loaded mapping
count(sk) == Len(sk)

(***************************************************************************)
(* src/server.py                                                           *)
(***************************************************************************)
\* "yaml.safe_load(...) or {}"
ServerResult(y) ==
  CASE y.kind = "dict"      -> y
    [] y.kind = "None"      -> [kind |-> "dict", d |-> EmptyDict]
    [] y.kind = "str"       -> y
    [] y.kind = "YAMLError" -> [kind |-> "raise"]

\* line 26 of _parse_frontmatter, end being text.index("---", 3), which
\* raises ValueError where find gives -1
ServerSplit(text, end) ==
  IF end = -1 THEN [kind |-> "raise"]
  ELSE ServerResult(yaml_safe_load(Slice(text, 3, end)))

\* _parse_frontmatter(text): the dict, the plain scalar safe_load returned, or
\* a raise (ValueError of text.index, YAMLError of safe_load)
server_parse_frontmatter(text) ==
  IF ~StartsWith(text, MARKER) THEN [kind |-> "dict", d |-> EmptyDict]
  ELSE ServerSplit(text, Find(text, MARKER, 3))

\* _parse_frontmatter on each document of the model
ServerParsed == [doc \in Docs |-> server_parse_frontmatter(Text(doc))]

\* the try block of _load_skills for one directory: the descriptor appended,
\* or None when the block raised
ServerDescriptor(f, skill_dir) ==
  IF ~Readable(f[skill_dir]) THEN None
  ELSE
    LET meta == ServerParsed[f[skill_dir]]
    IN  IF meta.kind # "dict" THEN None
        ELSE
          LET name == Get(meta.d, "name", skill_dir)
              description == IF "description" \in DOMAIN meta.d
                               THEN <<meta.d["description"]>>
                               ELSE <<"Scientific skill: ", name>>
          IN  [name |-> name, description |-> description,
               inputSchema |-> InputSchema("The query or task to perform with this skill")]

RECURSIVE LoadSkillsLoop(_, _, _)
LoadSkillsLoop(tl, f, dirs) ==
  IF dirs = << >> THEN tl
  ELSE
    LET skill_dir == Head(dirs)
        t == IF f[skill_dir] = "nodoc" THEN None ELSE ServerDescriptor(f, skill_dir)
    IN  LoadSkillsLoop(IF t = None THEN tl ELSE Append(tl, t), f, Tail(dirs))

\* _load_skills()
load_skills(r, f) ==
  IF ~r THEN << >>
  ELSE LoadSkillsLoop(<< >>, f, SortedListDir(f))

\* the fallback loop of _read_skill_content over SKILLS_DIR.iterdir(), which
\* yields the entries in the order `dirs` the operating system gives them
RECURSIVE ReadScan(_, _, _)
ReadScan(skill_name, f, dirs) ==
  IF dirs = << >> THEN None
  ELSE
    LET skill_dir == Head(dirs)
    IN  IF f[skill_dir] = "nodoc" THEN ReadScan(skill_name, f, Tail(dirs))
        ELSE IF ~Readable(f[skill_dir]) THEN [kind |-> "raise"]
        ELSE
          LET content == Text(f[skill_dir])
              meta    == ServerParsed[f[skill_dir]]
          IN  IF meta.kind # "dict" THEN [kind |-> "raise"]
              ELSE IF "name" \in DOMAIN meta.d /\ meta.d["name"] = skill_name
                THEN [kind |-> "str", text |-> content]
              ELSE ReadScan(skill_name, f, Tail(dirs))

\* _read_skill_content(skill_name): the content, None, or a raise
read_skill_content(skill_name, r, f, dirs) ==
  IF skill_name \in DirNames /\ f[skill_name] \notin {"absent", "nodoc"}
    THEN IF Readable(f[skill_name])
           THEN [kind |-> "str", text |-> Text(f[skill_name])]
           ELSE [kind |-> "raise"]
  ELSE IF ~r THEN [kind |-> "raise"]
  ELSE ReadScan(skill_name, f, dirs)

\* the orders in which iterdir() may yield a set of entries
Orders(S) ==
  {o \in [1..Cardinality(S) -> S] : \A i, j \in 1..Cardinality(S) : o[i] = o[j] => i = j}

OrdersOf == [S \in SUBSET DirNames |-> Orders(S)]

\* SKILLS_DIR.iterdir(), in each order it may come in
IterDir(f) == OrdersOf[ListDir(f)]

(***************************************************************************)
(* Requests.  A body is a function on the keys the caller sent.            *)
(***************************************************************************)
Methods == {"initialize", "tools/list", "tools/call", "resources/list",
            "resources/read", "bogus/method"}

\* the names a caller asks for: the directory names (one of them is also the
\* name the headers declare), and a name nothing has
ToolNames == DirNames \cup {"zz"}

Ids == {"req-1", "req-2"}

NoKeys == [k \in {} |-> None]

\* only tools/call reads params; no params and params without a name are the
\* same request to both dispatchers (params = {} and name = "")
Bodies ==
  LET ids     == {NoKeys} \cup {[id |-> i] : i \in Ids}
      methods == {NoKeys} \cup {[method |-> m] : m \in Methods}
      names   == {NoKeys} \cup {[params |-> [name |-> n]] : n \in ToolNames}
      ParamsOf(m) == IF m = [method |-> "tools/call"] THEN names ELSE {NoKeys}
  IN  UNION {{i @@ m @@ p : p \in ParamsOf(m)} : i \in ids, m \in methods}

(***************************************************************************)
(* src/mcp_server/server.py: mcp_endpoint on the loaded mapping             *)
(***************************************************************************)
\* body.get("id", ...) with the caller's id dropped
MessageIdDefault(body) == "unknown"

\* message_id = body.get("id", "unknown")
MessageId(body) == Get(body, "id", "unknown")

\* body.get("method", ...) with a request that names no method taken as initialize
MethodOrInitialize(body) == Get(body, "method", "initialize")

\* method = body.get("method", "")
Method(body) == Get(body, "method", "")

\* a success envelope that also carries an error
ResultResponseWithError(message_id, result) ==
  [id |-> message_id, result |-> result, error |-> <<"ok">>]

\* JSONResponse({"id": message_id, "result": ...})
ResultResponse(message_id, result) == [id |-> message_id, result |-> result]

\* an error envelope that also carries a result
ErrorResponseWithResult(message_id, error) ==
  [id |-> message_id, result |-> [content |-> << >>], error |-> error]

\* JSONResponse({"id": message_id, "error": ...})
ErrorResponse(message_id, error) == [id |-> message_id, error |-> error]

mcp_server_mcp_endpoint(sk, body) ==
  LET message_id == MessageId(body)
      method     == Method(body)
      params     == Get(body, "params", EmptyDict)
  IN  IF method = "initialize"
        THEN ResultResponse(message_id,
                            [protocolVersion |-> "2024-11-05",
                             capabilities |-> [tools |-> EmptyDict],
                             serverInfo |-> [name |-> "scientific-skills-mcp",
                                             version |-> "1.0.0"]])
      ELSE IF method = "tools/list"
        THEN ResultResponse(message_id, [tools |-> list_tools(sk)])
      ELSE IF method = "tools/call"
        THEN LET tool_name == Get(params, "name", "")
                 content   == get_skill_content(sk, tool_name)
             IN  IF content = None
                   THEN ErrorResponse(message_id, <<"Unknown tool: ", tool_name>>)
                   ELSE ResultResponse(message_id,
                                       [content |-> <<[type |-> "text",
                                                       text |-> content.text]>>])
      ELSE ErrorResponse(message_id, <<"Unsupported method: ", method>>)

\* which methods of mcp_endpoint reach a registry query (and its lazy load)
QueriesRegistry(body) == Get(body, "method", "") \in {"tools/list", "tools/call"}

(***************************************************************************)
(* src/server.py: mcp_endpoint on _TOOLS and the directory                 *)
(***************************************************************************)
Null == [kind |-> "null"]

\* a str where None may stand too: the parts of the string
Str(parts) == [kind |-> "str", text |-> parts]

server_mcp_endpoint(tl, r, f, dirs, body) ==
  LET msg_id == Get(body, "id", "")
      method == Get(body, "method", "")
      params == Get(body, "params", EmptyDict)
  IN  IF method = "initialize"
        THEN [id |-> msg_id,
              result |-> [protocolVersion |-> "2024-11-05",
                          serverInfo |-> [name |-> "scientific-skills",
                                          version |-> "1.0.0"],
                          capabilities |-> [tools |-> [listChanged |-> FALSE]]],
              error |-> Null]
      ELSE IF method = "tools/list"
        THEN [id |-> msg_id, result |-> [tools |-> tl], error |-> Null]
      ELSE IF method = "tools/call"
        THEN LET tool_name == Get(params, "name", "")
                 content   == read_skill_content(tool_name, r, f, dirs)
             IN  IF content.kind = "raise" THEN [raised |-> TRUE]
                 ELSE IF content = None
                   THEN [id |-> msg_id, result |-> Null,
                         error |-> Str(<<"Skill '", tool_name, "' not found">>)]
                 ELSE [id |-> msg_id,
                       result |-> [content |-> <<[type |-> "text", text |-> content.text]>>,
                                   isError |-> FALSE],
                       error |-> Null]
      ELSE IF method = "resources/list"
        THEN [id |-> msg_id, result |-> [resources |-> << >>], error |-> Null]
      ELSE IF method = "resources/read"
        THEN [id |-> msg_id, result |-> Null, error |-> Str(<<"Resource not found">>)]
      ELSE [id |-> msg_id, result |-> Null, error |-> Str(<<"Unknown method: ", method>>)]

(***************************************************************************)
(* State.  root, fs: the source directory.  skills, loaded: the fields of  *)
(* the SkillRegistry; current: the directory is as the latest load()       *)
(* scanned it.  tools: _TOOLS of src/server.py, built when the      *)
(* module is imported.  call: the operation that has just run, with what   *)
(* it returned (scanned: it ran SkillRegistry.load); Idle between          *)
(* operations, which run one at a time.  scans, loading, before, writes    *)
(* and input belong to the registry that is only queried, to load() beside *)
(* other threads and to _parse_frontmatter on its own, further down.       *)
(***************************************************************************)
EmptyRoot == [d \in DirNames |-> "absent"]

Idle == [op |-> "idle", scanned |-> FALSE]

\* no load() is running beside other threads
NotLoading == [at |-> "none"]

Init ==
  /\ root \in BOOLEAN
  /\ fs \in [DirNames -> Slots]
  /\ ~root => fs = EmptyRoot
  /\ removals = 0
  /\ skills = << >>
  /\ loaded = FALSE
  /\ current = FALSE
  /\ tools = load_skills(root, fs)
  /\ call = Idle
  /\ scans = 0
  /\ loading = NotLoading
  /\ before = << >>
  /\ writes = 0
  /\ input = << >>

(***************************************************************************)
(* The source directory changes under the running process.                 *)
(***************************************************************************)
RemoveDoc(d) ==
  /\ call = Idle
  /\ removals < MaxRemovals
  /\ fs[d] # "absent"
  /\ fs' = [fs EXCEPT ![d] = "absent"]
  /\ removals' = removals + 1
  /\ current' = FALSE
  /\ UNCHANGED <<root, skills, loaded, tools, call, apart>>

RemoveRoot ==
  /\ call = Idle
  /\ removals < MaxRemovals
  /\ root
  /\ root' = FALSE
  /\ fs' = EmptyRoot
  /\ removals' = removals + 1
  /\ current' = FALSE
  /\ UNCHANGED <<skills, loaded, tools, call, apart>>

(***************************************************************************)
(* SkillRegistry, called directly.                                         *)
(***************************************************************************)
\* registry.load()
Load ==
  /\ call = Idle
  /\ skills' = load(skills, root, fs)
  /\ loaded' = TRUE
  /\ current' = TRUE
  /\ call' = [op |-> "load", scanned |-> TRUE, again |-> current]
  /\ UNCHANGED <<root, fs, removals, tools, apart>>

\* the head of every query: "if not self._loaded: self.load()"
Query ==
  /\ call = Idle
  /\ skills' = EnsureLoaded(skills, loaded, root, fs)
  /\ loaded' = TRUE
  /\ current' = (current \/ NeedsLoad(loaded))
  /\ UNCHANGED <<root, fs, removals, tools>>

\* registry.count
Count ==
  /\ Query
  /\ call' = [op |-> "count", scanned |-> NeedsLoad(loaded), ret |-> count(skills')]

\* registry.list_tools()
ListTools ==
  /\ Query
  /\ call' = [op |-> "list_tools", scanned |-> NeedsLoad(loaded),
              ret |-> list_tools(skills')]

\* registry.get_skill_content(name)
GetSkillContent(name) ==
  /\ Query
  /\ call' = [op |-> "get_skill_content", scanned |-> NeedsLoad(loaded), name |-> name,
              ret |-> get_skill_content(skills', name)]

(***************************************************************************)
(* src/mcp_server/server.py                                                *)
(***************************************************************************)
\* GET /health
Health ==
  /\ Query
  /\ call' = [op |-> "health", scanned |-> NeedsLoad(loaded),
              ret |-> [status |-> "healthy", tools_count |-> count(skills'),
                       server |-> "scientific-skills-mcp", version |-> "1.0.0"]]
  /\ UNCHANGED apart

\* POST /mcp with initialize or a method outside the table: no registry query
McpStatic(body) ==
  /\ call = Idle
  /\ ~QueriesRegistry(body)
  /\ call' = [op |-> "mcp", scanned |-> FALSE, body |-> body,
              ret |-> mcp_server_mcp_endpoint(skills, body)]
  /\ UNCHANGED <<root, fs, removals, skills, loaded, current, tools, apart>>

\* POST /mcp with tools/list or tools/call
McpQuery(body) ==
  /\ QueriesRegistry(body)
  /\ Query
  /\ call' = [op |-> "mcp", scanned |-> NeedsLoad(loaded), body |-> body,
              ret |-> mcp_server_mcp_endpoint(skills', body)]
  /\ UNCHANGED apart

\* POST /mcp
McpEndpoint(body) == McpStatic(body) \/ McpQuery(body)

(***************************************************************************)
(* src/server.py                                                           *)
(***************************************************************************)
\* GET /health
ServerHealth ==
  /\ call = Idle
  /\ call' = [op |-> "server_health", scanned |-> FALSE,
              ret |-> [status |-> "ok", tools_count |-> Len(tools)]]
  /\ UNCHANGED <<root, fs, removals, skills, loaded, current, tools, apart>>

\* POST /mcp
ServerMcpEndpoint(body) ==
  /\ call = Idle
  /\ \E dirs \in IterDir(fs) :
       call' = [op |-> "server_mcp", scanned |-> FALSE, body |-> body,
                ret |-> server_mcp_endpoint(tools, root, fs, dirs, body)]
  /\ UNCHANGED <<root, fs, removals, skills, loaded, current, tools, apart>>

\* the operation returns to its caller
Return ==
  /\ call # Idle
  /\ call' = Idle
  /\ UNCHANGED <<root, fs, removals, skills, loaded, current, tools, apart>>

Next ==
  \/ \E d \in DirNames : RemoveDoc(d)
  \/ RemoveRoot
  \/ Load
  \/ Count /\ UNCHANGED apart
  \/ ListTools /\ UNCHANGED apart
  \/ \E name \in ToolNames \cup {""} : GetSkillContent(name) /\ UNCHANGED apart
  \/ Health
  \/ \E body \in Bodies : McpEndpoint(body)
  \/ ServerHealth
  \/ \E body \in Bodies : ServerMcpEndpoint(body)
  \/ Return

Spec == Init /\ [][Next]_vars

(***************************************************************************)
(* A registry that is only queried: count, list_tools and                  *)
(* get_skill_content on a fresh SkillRegistry, load() never called by      *)
(* hand.  scans counts the runs of load().                                  *)
(***************************************************************************)
Counted ==
  /\ scans + LazyScans(loaded) <= MaxScans
  /\ scans' = scans + LazyScans(loaded)

LazyQuery ==
  /\ \/ Count
     \/ ListTools
     \/ \E name \in ToolNames \cup {""} : GetSkillContent(name)
  /\ Counted
  /\ UNCHANGED <<loading, before, writes, input>>

LazyNext ==
  \/ LazyQuery
  \/ \E d \in DirNames : RemoveDoc(d)
  \/ RemoveRoot
  \/ Return

LazySpec == Init /\ [][LazyNext]_vars

(***************************************************************************)
(* SkillRegistry with threads.  One thread runs load(), one statement of   *)
(* its loop at a time: loading holds the entries it has yet to visit,      *)
(* before the mapping as it was when the call began.  Other threads run    *)
(* count, list_tools and get_skill_content between its steps; the registry *)
(* has no lock.  A query that finds _loaded unset runs load() itself, from *)
(* the first entry to the last, before it reads.  Documents are written    *)
(* into the directory only while no load() runs.                           *)
(***************************************************************************)
ConcDocs == {"plain", "empty", "named1"}

ConcInit ==
  /\ Init
  /\ \A d \in DirNames : fs[d] \in {"absent"} \cup ConcDocs

\* lines 54-59 of load: the test of the root, and sorted(os.listdir(...))
LoadBegin ==
  /\ call = Idle
  /\ loading = NotLoading
  /\ IF ~root
       THEN /\ loaded' = TRUE
            /\ UNCHANGED <<loading, before>>
       ELSE /\ loading' = [at |-> "loop", entries |-> SortedListDir(fs)]
            /\ before' = skills
            /\ UNCHANGED loaded
  /\ UNCHANGED <<root, fs, removals, skills, current, tools, call, scans, writes, input>>

\* lines 60-81 of load: one pass of the loop body
LoadStep ==
  /\ loading # NotLoading
  /\ loading.entries # << >>
  /\ skills' = LoadEntry(skills, fs, Head(loading.entries))
  /\ loading' = [loading EXCEPT !.entries = Tail(@)]
  /\ UNCHANGED <<root, fs, removals, loaded, current, tools, call, scans, before,
                 writes, input>>

\* line 83 of load: self._loaded = True
LoadEnd ==
  /\ loading # NotLoading
  /\ loading.entries = << >>
  /\ loaded' = TRUE
  /\ loading' = NotLoading
  /\ before' = << >>
  /\ UNCHANGED <<root, fs, removals, skills, current, tools, call, scans, writes, input>>

\* a SKILL.md is written (a new subdirectory, or a new text in an old one)
WriteDoc(d, doc) ==
  /\ call = Idle
  /\ loading = NotLoading
  /\ root
  /\ writes < MaxWrites
  /\ fs[d] # doc
  /\ fs' = [fs EXCEPT ![d] = doc]
  /\ writes' = writes + 1
  /\ current' = FALSE
  /\ UNCHANGED <<root, removals, skills, loaded, tools, call, scans, loading, before,
                 input>>

\* a query from another thread
Reader ==
  /\ \/ Count
     \/ ListTools
     \/ \E name \in ToolNames \cup {""} : GetSkillContent(name)
  /\ UNCHANGED apart

ConcNext ==
  \/ LoadBegin
  \/ LoadStep
  \/ LoadEnd
  \/ \E d \in DirNames, doc \in ConcDocs : WriteDoc(d, doc)
  \/ Reader
  \/ Return

ConcSpec == ConcInit /\ [][ConcNext]_vars

(***************************************************************************)
(* _parse_frontmatter of skill_loader.py on its own, applied to texts put  *)
(* together from a first line, up to two header lines, a closing line and  *)
(* a body.                                                                 *)
(***************************************************************************)
\* "---", "---x", a blank line before "---", or no first line at all
Openings == {MARKER \o <<"\n">>, MARKER \o <<"x", "\n">>,
             <<"\n">> \o MARKER \o <<"\n">>, << >>}

\* "name: x", "name: a---b", "description: d"
HeaderLines == {<<"name", ":", "x", "\n">>,
                <<"name", ":", "a", "-", "-", "-", "b", "\n">>,
                <<"description", ":", "d", "\n">>}

Headers == {<< >>} \cup HeaderLines \cup {k \o l : k, l \in HeaderLines}

\* "---", "---x", or no closing line
Closings == {MARKER \o <<"\n">>, MARKER \o <<"x", "\n">>, << >>}

Tails == {<<"# T", "\n", "text">>, <<"a", "-", "-", "-", "b">>, << >>}

Inputs == {o \o h \o c \o t : o \in Openings, h \in Headers, c \in Closings, t \in Tails}

ParseInit ==
  /\ root = FALSE
  /\ fs = EmptyRoot
  /\ removals = 0
  /\ skills = << >>
  /\ loaded = FALSE
  /\ current = FALSE
  /\ tools = << >>
  /\ call = Idle
  /\ scans = 0
  /\ loading = NotLoading
  /\ before = << >>
  /\ writes = 0
  /\ input \in Inputs

\* metadata, body = _parse_frontmatter(content)
Parse ==
  /\ call = Idle
  /\ call' = [op |-> "parse", scanned |-> FALSE,
              ret |-> skill_loader_parse_frontmatter(input)]
  /\ UNCHANGED <<root, fs, removals, skills, loaded, current, tools, apart>>

ParseNext == Parse \/ Return

ParseSpec == ParseInit /\ [][ParseNext]_vars

(***************************************************************************)
(* Properties.                                                             *)
(***************************************************************************)
\* what a scan of directory d indexes, read off the document itself
Indexed(f, d) ==
  /\ f[d] \in Docs
  /\ Readable(f[d])
  /\ LoaderParsed[f[d]].isdict

Metadata(f, d) == LoaderParsed[f[d]].metadata

\* the header of d's document declares name n
Declares(f, d, n) ==
  Indexed(f, d) /\ "name" \in DOMAIN Metadata(f, d) /\ Metadata(f, d)["name"] = n

\* d's document resolves to canonical name n: declared, or the directory name
ResolvesTo(f, d, n) ==
  Indexed(f, d) /\ Get(Metadata(f, d), "name", d) = n

CanonicalNames(f) == {Get(Metadata(f, d), "name", d) : d \in {e \in DirNames : Indexed(f, e)}}

\* the last of a set of directory names in lexicographic order
Last(D) == CHOOSE d \in D : \A o \in D : Ord(o) <= Ord(d)

EntriesFor(sk, n) == {i \in 1..Len(sk) : sk[i].name = n}

\* the registry's entry for n is the one made from directory d
EntryIsFrom(sk, n, f, d) ==
  /\ Cardinality(EntriesFor(sk, n)) = 1
  /\ DictGet(sk, n).dir_name = d
  /\ DictGet(sk, n).content = Text(f[d])

AllNames == DirNames \cup {"zz", ""}

\* C1, as stated: after load(), when two or more subdirectories hold a
\* SKILL.md whose metadata declares the same name x, the registry has exactly
\* one entry for x, made from the last of those subdirectories in
\* lexicographic order.
C1_DeclaredCollision_Original ==
  call.scanned =>
    \A n \in AllNames :
      LET D == {d \in DirNames : Declares(fs, d, n)}
      IN  Cardinality(D) >= 2 => EntryIsFrom(skills, n, fs, Last(D))

\* C1, amended: after load(), when two or more subdirectories resolve to the
\* same canonical name x (declared in the header, or the directory's own name
\* when the header declares none), the registry has exactly one entry for x,
\* made from the last of those subdirectories in lexicographic order.
C1_Collision ==
  call.scanned =>
    \A n \in AllNames :
      LET D == {d \in DirNames : ResolvesTo(fs, d, n)}
      IN  Cardinality(D) >= 2 => EntryIsFrom(skills, n, fs, Last(D))

\* two documents declaring x were scanned, and the entry holds the later one
C1_Witness ==
  /\ call.op = "load"
  /\ fs["a"] = "named2" /\ fs["b"] = "named1" /\ fs["x"] = "absent"
  /\ EntryIsFrom(skills, "x", fs, "b")

ListedNames(sk) == {list_tools(sk)[i].name : i \in 1..Len(sk)}

\* C2, as stated: for every name in a descriptor of list_tools(),
\* get_skill_content(name) is not None and is a non-empty string equal to the
\* full text of the document indexed under that name.
C2_RoundTrip_Original ==
  (call.op = "get_skill_content" /\ call.name \in ListedNames(skills)) =>
    /\ call.ret # None
    /\ call.ret.text # << >>
    /\ call.ret.text = DictGet(skills, call.name).content

\* C2, amended: for every name in a descriptor of list_tools(),
\* get_skill_content(name) is not None and is a string equal to the untouched
\* full text (header and body) of the document indexed under that name: some
\* document's whole text, and the text of the document in the entry's
\* directory while that directory is still there.  The string is empty when
\* the document is an empty file.
C2_RoundTrip ==
  (call.op = "get_skill_content" /\ call.name \in ListedNames(skills)) =>
    /\ call.ret # None
    /\ \E doc \in Docs :
         /\ call.ret.text = Text(doc)
         /\ LET dir == DictGet(skills, call.name).dir_name
            IN  fs[dir] # "absent" => fs[dir] = doc

\* a listed name declared in a header was asked for; header and body came back
C2_Witness ==
  /\ call.op = "get_skill_content" /\ call.name = "x"
  /\ fs["a"] = "named1" /\ fs["b"] = "absent" /\ fs["x"] = "absent"
  /\ call.ret = [kind |-> "str", text |-> Text("named1")]

IsToolsCall(body) == Get(body, "method", "") = "tools/call"

ToolName(body) == Get(Get(body, "params", EmptyDict), "name", "")

\* a message (a string given by its parts) is non-empty / holds a name
NonEmpty(msg) == \E i \in 1..Len(msg) : msg[i] # ""

Mentions(msg, name) == name = "" \/ \E i \in 1..Len(msg) : msg[i] = name

\* C3: tools/call on the registry dispatcher with a name that is not a key of
\* the loaded registry (a missing name parameter is "") answers with the
\* request's id, no result, and a non-empty error that holds the name.
C3_UnknownTool ==
  (call.op = "mcp" /\ IsToolsCall(call.body) /\ ToolName(call.body) \notin Keys(skills)) =>
    /\ "id" \in DOMAIN call.body => call.ret.id = call.body["id"]
    /\ "result" \notin DOMAIN call.ret
    /\ "error" \in DOMAIN call.ret
    /\ NonEmpty(call.ret.error)
    /\ Mentions(call.ret.error, ToolName(call.body))

\* a name no document has was called, with an id, on a registry that holds
\* two documents
C3_Witness ==
  /\ call.op = "mcp" /\ IsToolsCall(call.body)
  /\ "id" \in DOMAIN call.body
  /\ ToolName(call.body) = "zz"
  /\ Keys(skills) = {"x", "b"}
  /\ call.ret.error = <<"Unknown tool: ", "zz">>

\* C4: no failure escapes the dispatcher of src/server.py: every tools/call,
\* whatever the name and whatever the state of the source directory, returns
\* a response envelope, and an unknown tool name is an error in the envelope.
C4_NoFailureEscapes ==
  (call.op = "server_mcp" /\ IsToolsCall(call.body)) =>
    /\ "raised" \notin DOMAIN call.ret
    /\ "id" \in DOMAIN call.ret

\* C5: after every load() the mapping holds exactly the documents that call's
\* scan found: its keys are the canonical names of the directory as scanned.
C5_ReloadReplaces ==
  call.scanned => Keys(skills) = (IF root THEN CanonicalNames(fs) ELSE {})

\* C6: count after load is the number of distinct canonical names among the
\* subdirectories of the root that hold a readable SKILL.md.
C6_CountIsDistinctNames ==
  (call.op = "count" /\ current) =>
    call.ret = Cardinality(IF root THEN CanonicalNames(fs) ELSE {})

\* C7: the tool list of src/server.py, as tools/list returns it and /health
\* counts it, never holds two descriptors with the same name.
C7_ServerNamesUnique ==
  /\ (call.op = "server_mcp" /\ Get(call.body, "method", "") = "tools/list") =>
       LET tl == call.ret.result.tools
       IN  \A i, j \in 1..Len(tl) : tl[i].name = tl[j].name => i = j
  /\ call.op = "server_health" =>
       call.ret.tools_count = Cardinality({tools[i].name : i \in 1..Len(tools)})

\* what _load_skills lists for directory d, read off the document itself
ServerListed(f, d) ==
  /\ f[d] \in Docs
  /\ Readable(f[d])
  /\ ServerParsed[f[d]].kind = "dict"

ServerResolvesTo(f, d, n) ==
  ServerListed(f, d) /\ Get(ServerParsed[f[d]].d, "name", d) = n

\* C8: in src/server.py, tools/call of a name n that tools/list holds returns
\* the raw content of the document indexed under canonical name n, the later
\* one in sorted scan order when several resolve to n (the directory being as
\* it was when the list was built).
C8_LookupAgreesWithIndex ==
  (/\ call.op = "server_mcp" /\ IsToolsCall(call.body)
   /\ removals = 0
   /\ \E i \in 1..Len(tools) : tools[i].name = ToolName(call.body)) =>
    LET n == ToolName(call.body)
        D == {d \in DirNames : ServerResolvesTo(fs, d, n)}
    IN  /\ "result" \in DOMAIN call.ret
        /\ call.ret.result # Null
        /\ call.ret.result.content[1].text = Text(fs[Last(D)])

\* C9: get_skill_content(d), for the directory name d of an indexed document
\* whose canonical name is not d, returns that document's raw content when no
\* document has canonical name d.
C9_DirectoryAlias ==
  (call.op = "get_skill_content" /\ call.name \notin Keys(skills)) =>
    \A i \in 1..Len(skills) :
      (skills[i].dir_name = call.name /\ skills[i].name # call.name) =>
        call.ret = [kind |-> "str", text |-> skills[i].content]

\* C10: when the root directory does not exist at load time the catalog is
\* empty in both variants (count 0, list_tools() empty, tools/list empty) and
\* the health check answers healthy/ok with tools_count 0.
C10_MissingRoot ==
  /\ (call.scanned /\ ~root) =>
       count(skills) = 0 /\ list_tools(skills) = << >>
  /\ (call.op = "health" /\ current /\ ~root) =>
       call.ret.status = "healthy" /\ call.ret.tools_count = 0
  /\ (removals = 0 /\ ~root) => tools = << >>
  /\ (call.op = "server_health" /\ removals = 0 /\ ~root) =>
       call.ret.status = "ok" /\ call.ret.tools_count = 0
\* C11: on a fresh registry that is only queried, the directory is scanned
\* exactly once, by the first query: no scan before a query, one scan once a
\* query has run, and never a second one, whether the root is missing, holds
\* no document, or holds some.
C11_LazyLoadOnce ==
  /\ scans = (IF loaded THEN 1 ELSE 0)
  /\ call.op \in {"count", "list_tools", "get_skill_content"} => scans = 1
  /\ call.scanned => call.op \in {"count", "list_tools", "get_skill_content"}

\* a later query on a registry whose one scan found the root missing: it did
\* not scan again
C11_Witness ==
  /\ call.op = "list_tools" /\ ~call.scanned
  /\ ~root /\ removals = 0
  /\ loaded /\ scans = 1 /\ skills = << >>
\* C12: a load() run against the directory as the previous scan of the same
\* registry found it (load() twice in a row, nothing changed in between)
\* leaves the index as it was: the same size, the same names, the same content
\* for each name.
C12_LoadIdempotent ==
  [][(call'.op = "load" /\ call'.again) =>
       /\ Len(skills') = Len(skills)
       /\ Keys(skills') = Keys(skills)
       /\ \A n \in Keys(skills) :
            DictGet(skills', n).content = DictGet(skills, n).content]_vars

\* load() has run a second time over three documents, two of them resolving
\* to the same name
C12_Witness ==
  /\ call.op = "load" /\ call.again
  /\ removals = 0
  /\ fs["a"] = "named1" /\ fs["b"] = "plain" /\ fs["x"] = "empty"
  /\ Keys(skills) = {"x", "b"}
\* the subdirectories whose document makes the try block of the scan raise:
\* the read fails, or the header does not parse to a mapping
LoaderFails(f) == {d \in DirNames : f[d] \in Docs /\ ~Indexed(f, d)}

ServerFails(f) == {d \in DirNames : f[d] \in Docs /\ ~ServerListed(f, d)}

Without(f, d) == [f EXCEPT ![d] = "absent"]

Responded ==
  call.op \in {"mcp", "server_mcp"} /\ "raised" \notin DOMAIN call.ret

\* the id the dispatcher substitutes when the request has none
DefaultId(op) == IF op = "mcp" THEN "unknown" ELSE ""

\* key k of a response is present with a value that is not null.  The
\* responses of src/mcp_server/server.py hold no None: a result is a dict
\* literal and an error an f-string, so a key that is there has a value.
HasValue(op, ret, k) == k \in DOMAIN ret /\ (op = "mcp" \/ ret[k] # Null)

\* the text of an error, as the parts of the string
ErrorParts(op, ret) == IF op = "mcp" THEN ret.error ELSE ret.error.text

\* C14: every response of both dispatchers, on every branch, has an id field
\* equal to the request's id, and equal to the dispatcher's default ("unknown"
\* in src/mcp_server/server.py, "" in src/server.py) when the request has none.
C14_IdEcho ==
  Responded =>
    /\ "id" \in DOMAIN call.ret
    /\ call.ret.id = Get(call.body, "id", DefaultId(call.op))

\* an error response to a request without an id carries the default id
C14_Witness ==
  /\ call.op = "mcp"
  /\ "id" \notin DOMAIN call.body
  /\ "method" \in DOMAIN call.body /\ call.body["method"] = "bogus/method"
  /\ call.ret.id = "unknown"
  /\ "error" \in DOMAIN call.ret

\* C15: every response of both dispatchers has exactly one of result and
\* error present with a value that is not null.
C15_ResultXorError ==
  Responded => (HasValue(call.op, call.ret, "result") # HasValue(call.op, call.ret, "error"))

\* the error response of src/server.py to an unknown tool: result null, error
\* a message
C15_Witness ==
  /\ call.op = "server_mcp" /\ IsToolsCall(call.body) /\ ToolName(call.body) = "zz"
  /\ Responded
  /\ call.ret.result = Null
  /\ call.ret.error = Str(<<"Skill '", "zz", "' not found">>)

\* C16: in both variants the response to initialize and to tools/list carries
\* a result and no error that is not null, whatever the registry holds
\* (nothing loaded yet, the root missing, documents loaded) and whatever the
\* request's id.
C16_NeverAnError ==
  (call.op \in {"mcp", "server_mcp"}
   /\ Get(call.body, "method", "") \in {"initialize", "tools/list"}) =>
    /\ Responded
    /\ HasValue(call.op, call.ret, "result")
    /\ ~HasValue(call.op, call.ret, "error")

\* tools/list was the first request to a registry nothing had loaded, with the
\* root missing: an empty list, no error
C16_Witness ==
  /\ call.op = "mcp" /\ call.scanned
  /\ Get(call.body, "method", "") = "tools/list"
  /\ ~root /\ removals = 0
  /\ call.ret.result = [tools |-> << >>]
  /\ "error" \notin DOMAIN call.ret

\* the method table of each dispatcher
MethodTable(op) ==
  IF op = "mcp" THEN {"initialize", "tools/list", "tools/call"}
  ELSE {"initialize", "tools/list", "tools/call", "resources/list", "resources/read"}

\* C17: in both variants a method outside the dispatcher's table gets an
\* error response whose message names the method, and a request without a
\* method key is handled as method "" and gets the same error response.
C17_UnknownMethod ==
  (call.op \in {"mcp", "server_mcp"}
   /\ Get(call.body, "method", "") \notin MethodTable(call.op)) =>
    /\ Responded
    /\ HasValue(call.op, call.ret, "error")
    /\ ~HasValue(call.op, call.ret, "result")
    /\ ErrorParts(call.op, call.ret) =
         <<IF call.op = "mcp" THEN "Unsupported method: " ELSE "Unknown method: ",
           Get(call.body, "method", "")>>

\* a request without a method key was answered as method ""
C17_Witness ==
  /\ call.op = "server_mcp"
  /\ "method" \notin DOMAIN call.body
  /\ call.ret.error = Str(<<"Unknown method: ", "">>)
  /\ call.ret.result = Null
\* the mapping the running load() will have published when it ends
After == LoadLoop(before, fs, SortedListDir(fs))

\* C18: a query that runs while load() is running answers from the complete
\* catalog of before that load or from the complete catalog of after it,
\* never from a mapping the load has filled in part.
C18_AtomicPublish ==
  loading # NotLoading =>
    /\ call.op = "count" =>
         call.ret = count(before) \/ call.ret = count(After)
    /\ call.op = "list_tools" =>
         call.ret = list_tools(before) \/ call.ret = list_tools(After)
    /\ call.op = "get_skill_content" =>
         \/ call.ret = get_skill_content(before, call.name)
         \/ call.ret = get_skill_content(After, call.name)
\* C19: in src/server.py every tools/call that returns content returns the
\* text of a document _load_skills listed, asked for by its canonical name or
\* by its directory name; a document skipped at load (unreadable, or its
\* header failed to parse) is never returned (the directory being as it was
\* when the list was built).
C19_SkippedNeverServed ==
  (/\ call.op = "server_mcp" /\ IsToolsCall(call.body)
   /\ removals = 0
   /\ Responded
   /\ call.ret.result # Null) =>
    \E d \in DirNames :
      /\ ServerListed(fs, d)
      /\ ToolName(call.body) = d \/ ServerResolvesTo(fs, d, ToolName(call.body))
      /\ call.ret.result.content[1].text = Text(fs[d])
\* the lines of a text that are a marker line: exactly three hyphens
MarkerLines(lines) == {i \in 1..Len(lines) : lines[i] = MARKER}

\* the index in the text where line j begins
RECURSIVE LineStart(_, _)
LineStart(lines, j) ==
  IF j = 1 THEN 0 ELSE LineStart(lines, j - 1) + Len(lines[j - 1]) + 1

\* the keys the header lines 2..j-1 declare
HeaderKeys(lines, j) == {lines[i][1] : i \in {k \in 2..(j - 1) : lines[k] # << >>}}

\* what C20 says of a text whose header ends at marker line j
DelimitedAt(ret, txt, lines, j) ==
  /\ ret.isdict
  /\ DOMAIN ret.metadata = HeaderKeys(lines, j)
  /\ ret.body = Strip(Slice(txt, LineStart(lines, j) + 3, Len(txt)))

\* what C20 says of a text that has no header
HeaderLess(ret, txt) ==
  /\ ret.isdict
  /\ ret.metadata = EmptyDict
  /\ ret.body = txt

\* C20: _parse_frontmatter of skill_loader.py finds a header only in a text
\* whose first line is exactly three hyphens, and ends it at the next line
\* that is exactly three hyphens: the metadata are the keys of the lines in
\* between and the body is the text after that line.  Three hyphens inside a
\* header line do not end the header; a text that begins with three hyphens
\* and more characters, or that has no closing marker line, gives empty
\* metadata and the whole text as body.
C20_HeaderDelimiting ==
  call.op = "parse" =>
    LET lines   == SplitLines(input)
        closers == MarkerLines(lines) \ {1}
    IN  IF lines[1] = MARKER /\ closers # {}
          THEN DelimitedAt(call.ret, input, lines, Lowest(closers))
          ELSE HeaderLess(call.ret, input)
====
